---- MODULE Spec2Model ----
(***************************************************************************)
(* Model of src/main.rs: a 3x3 grid of list cells in three columns, driven *)
(* by a draw / read / dispatch loop between terminal setup and teardown.   *)
(***************************************************************************)
EXTENDS Integers, Sequences, FiniteSets, TLC

\* ---------------------------------------------------------------- bounds
\* Number of handled input events that are recorded verbatim in `trace`.
MaxTrace == 4

\* ------------------------------------------------------- program constants
\* [T; 3]: every column holds three items (self.items.len()).
ItemsLen == 3
\* main() builds three columns and guards column_number with `< 2` / `> 0`.
LastColumn == 2
\* return_selected() yields 9 when ListState has no selection.
NoneSelected == 9

Cols == 0..LastColumn
Rows == 0..(ItemsLen - 1)

\* Option<usize> of ListState::selected(): <<>> is None, <<i>> is Some(i).
None == <<>>
Some(i) == <<i>>
Unwrap(o) == o[1]

\* Background colours a ListItem can carry.
Red == "Red"
White == "White"

\* What event::read() can deliver: the key codes main() matches on, one key
\* it does not match ('b' of the legend), and one non-key event (resize).
Keys == {"Down", "Up", "Right", "Left", "w", "q", "b"}
Events == Keys \cup {"Resize"}

\* `trace` once more than MaxTrace events have been handled.
Truncated == <<"...">>

VARIABLES
    pc,                \* position of main() in its body
    raw_mode,          \* terminal raw mode is enabled
    alternate_screen,  \* terminal is on the alternate screen
    result,            \* Running, or what main() returned: Ok / Err(call)
    column_number,     \* main(): let mut column_number
    row,               \* main(): let mut row
    state,             \* per column: ListState selection (Option<usize>)
    items,             \* per column: background colour of each of its items
    key,               \* the event handled by the last loop iteration
    indexed,           \* cells (column, row) indexed by the last toggle_white
    trace,             \* the events handled so far (first MaxTrace, exactly)
    moved,             \* some Down, Up or Right has been handled
    seen_row,          \* per column: its selection when it first was the
                       \* active column since the last Down or Up
    drawn,             \* frames drawn since the last event was read
    frame              \* what the last drawn frame showed: <<state, items>>

grid == <<column_number, row, state, items>>
vars == <<pc, raw_mode, alternate_screen, result, column_number, row, state,
          items, key, indexed, trace, moved, seen_row, drawn, frame>>

\* ------------------------------------------------------------ ColumnState
\* ColumnState::new: the given items, ListState::default() (nothing selected).
new(its) == [items |-> its, state |-> None]

\* Variant of next: Down on the last row wraps to the first.
next_wrap(sel, r) ==
    IF sel # None
    THEN Some((Unwrap(sel) + 1) % ItemsLen)
    ELSE Some(r)

\* ColumnState::next
next(sel, r) ==
    IF sel # None
    THEN IF Unwrap(sel) < ItemsLen - 1 THEN Some(Unwrap(sel) + 1) ELSE sel
    ELSE Some(r)

\* Variant of previous: Up on the first row wraps to the last.
previous_wrap(sel, r) ==
    IF sel # None
    THEN IF Unwrap(sel) > 0 THEN Some(Unwrap(sel) - 1) ELSE Some(ItemsLen - 1)
    ELSE Some(r)

\* Variant of previous: without a selection nothing is selected.
previous_no_fallback(sel, r) ==
    IF sel # None
    THEN IF Unwrap(sel) > 0 THEN Some(Unwrap(sel) - 1) ELSE sel
    ELSE sel

\* ColumnState::previous
previous(sel, r) ==
    IF sel # None
    THEN IF Unwrap(sel) > 0 THEN Some(Unwrap(sel) - 1) ELSE sel
    ELSE Some(r)

\* Variant of return_selected: no selection is reported as row 0.
return_selected_zero(sel) == IF sel # None THEN Unwrap(sel) ELSE 0

\* ColumnState::return_selected
return_selected(sel) == IF sel # None THEN Unwrap(sel) ELSE NoneSelected

\* Variant of unselect: the selection is kept.
unselect_keep(sel) == sel

\* ColumnState::unselect
unselect(sel) == None

\* ListItem::style is a by-value builder: it returns the restyled item and
\* leaves nothing behind in the place it was called on.
style(item, colour) == colour

\* Variant of toggle_white: every item of a column with a selection is
\* replaced by its White version.
toggle_white_column(its, sts) ==
    [c \in Cols |->
        LET r == return_selected(sts[c]) IN
        IF r # NoneSelected
        THEN [i \in Rows |-> style(its[c][i], White)]
        ELSE its[c]]

\* toggle_white: for every column with a selection, builds the White version
\* of the selected item and drops it; the columns' items are not assigned.
toggle_white(its, sts) ==
    [c \in Cols |->
        LET r == return_selected(sts[c]) IN
        IF r # NoneSelected
        THEN LET styled == style(its[c][r], White) IN its[c]
        ELSE its[c]]

\* The cells toggle_white indexes (col.items[row]).
toggle_indexes(sts) ==
    {<<c, return_selected(sts[c])>> : c \in {d \in Cols : return_selected(sts[d]) # NoneSelected}}

\* ------------------------------------------------------------------- main
\* The Err main() returns when the call at position p fails.
Err(p) == <<"Err", p>>
IsErr(r) == r[1] = "Err"
Running == <<"running">>
Ok == <<"Ok">>

Init ==
    /\ pc = "enable_raw_mode"
    /\ raw_mode = FALSE
    /\ alternate_screen = FALSE
    /\ result = Running
    /\ column_number = 0
    /\ row = 0
    /\ state = [c \in Cols |-> new([r \in Rows |-> Red]).state]
    /\ items = [c \in Cols |-> new([r \in Rows |-> Red]).items]
    /\ key = "none"
    /\ indexed = {}
    /\ trace = <<>>
    /\ moved = FALSE
    /\ seen_row = [c \in Cols |-> None]
    /\ drawn = 0
    /\ frame = <<>>

\* `?` on an Err: main returns the error of the failed call, nothing else runs.
Fail ==
    /\ pc' = "done"
    /\ result' = Err(pc)

\* enable_raw_mode()?
EnableRawMode ==
    /\ pc = "enable_raw_mode"
    /\ \/ /\ raw_mode' = TRUE
          /\ pc' = "enter_alternate_screen"
          /\ result' = result
       \/ /\ raw_mode' = raw_mode
          /\ Fail
    /\ UNCHANGED <<alternate_screen, grid, key, indexed, trace, moved, seen_row, drawn, frame>>

\* execute!(stdout, EnterAlternateScreen, EnableMouseCapture)?
\* On an error the first command may or may not have taken effect.
EnterAlternateScreen ==
    /\ pc = "enter_alternate_screen"
    /\ \/ /\ alternate_screen' = TRUE
          /\ pc' = "terminal_new"
          /\ result' = result
       \/ /\ alternate_screen' \in BOOLEAN
          /\ Fail
    /\ UNCHANGED <<raw_mode, grid, key, indexed, trace, moved, seen_row, drawn, frame>>

\* Terminal::new(backend)?
TerminalNew ==
    /\ pc = "terminal_new"
    /\ \/ /\ pc' = "draw"
          /\ result' = result
       \/ Fail
    /\ UNCHANGED <<raw_mode, alternate_screen, grid, key, indexed, trace, moved, seen_row, drawn, frame>>

\* ui(): the three lists are rendered from each column's items and state.
ui(its, sts) == <<sts, its>>

\* Variant of terminal.draw: only the first frame is drawn.
Draw_first_only ==
    /\ pc = "draw"
    /\ \/ /\ pc' = "read"
          /\ result' = result
          /\ IF key = "none"
             THEN drawn' = drawn + 1 /\ frame' = ui(items, state)
             ELSE UNCHANGED <<drawn, frame>>
       \/ /\ Fail
          /\ UNCHANGED <<drawn, frame>>
    /\ UNCHANGED <<raw_mode, alternate_screen, grid, key, indexed, trace, moved, seen_row>>

\* terminal.draw(|f| ui(f, ...))?
Draw ==
    /\ pc = "draw"
    /\ \/ /\ pc' = "read"
          /\ result' = result
          /\ drawn' = drawn + 1
          /\ frame' = ui(items, state)
       \/ /\ Fail
          /\ UNCHANGED <<drawn, frame>>
    /\ UNCHANGED <<raw_mode, alternate_screen, grid, key, indexed, trace, moved, seen_row>>

\* event::read()? returned Err
ReadFail ==
    /\ pc = "read"
    /\ Fail
    /\ UNCHANGED <<raw_mode, alternate_screen, grid, key, indexed, trace, moved, seen_row, drawn, frame>>

\* Bookkeeping shared by every handled event e; reads the new grid, so it is
\* the last conjunct of each handler.
Handled(e) ==
    /\ key' = e
    /\ trace' = IF trace # Truncated /\ Len(trace) < MaxTrace
                THEN Append(trace, e) ELSE Truncated
    /\ moved' = (moved \/ e \in {"Down", "Up", "Right"})
    /\ LET base == IF e \in {"Down", "Up"} THEN [c \in Cols |-> None]
                   ELSE seen_row IN
       seen_row' = IF base[column_number'] = None
                   THEN [base EXCEPT ![column_number'] = state'[column_number']]
                   ELSE base
    /\ drawn' = 0
    /\ UNCHANGED <<raw_mode, alternate_screen, result, frame>>

\* Variant of KeyCode::Down: the remembered row is read before next() runs.
KeyDown_stale ==
    /\ pc = "read"
    /\ LET sel == next(state[column_number], row) IN
        /\ state' = [state EXCEPT ![column_number] = sel]
        /\ row' = return_selected(state[column_number])
    /\ pc' = "draw"
    /\ UNCHANGED <<column_number, items, indexed>>
    /\ Handled("Down")

\* KeyCode::Down
KeyDown ==
    /\ pc = "read"
    /\ LET sel == next(state[column_number], row) IN
        /\ state' = [state EXCEPT ![column_number] = sel]
        /\ row' = return_selected(sel)
    /\ pc' = "draw"
    /\ UNCHANGED <<column_number, items, indexed>>
    /\ Handled("Down")

\* Variant of KeyCode::Up: the remembered row is not updated.
KeyUp_norow ==
    /\ pc = "read"
    /\ LET sel == previous(state[column_number], row) IN
        /\ state' = [state EXCEPT ![column_number] = sel]
        /\ row' = row
    /\ pc' = "draw"
    /\ UNCHANGED <<column_number, items, indexed>>
    /\ Handled("Up")

\* KeyCode::Up
KeyUp ==
    /\ pc = "read"
    /\ LET sel == previous(state[column_number], row) IN
        /\ state' = [state EXCEPT ![column_number] = sel]
        /\ row' = return_selected(sel)
    /\ pc' = "draw"
    /\ UNCHANGED <<column_number, items, indexed>>
    /\ Handled("Up")

\* Variant of KeyCode::Right: the active column wraps from 2 to 0.
KeyRight_wrap ==
    /\ pc = "read"
    /\ LET cleared == [state EXCEPT ![column_number] = unselect(@)]
           target == (column_number + 1) % (LastColumn + 1) IN
        /\ column_number' = target
        /\ state' = [cleared EXCEPT ![target] = next(@, row)]
    /\ pc' = "draw"
    /\ UNCHANGED <<row, items, indexed>>
    /\ Handled("Right")

\* Variant of KeyCode::Right: the new column starts from the remembered row
\* as if it were selected, and so advances past it.
KeyRight_advance ==
    /\ pc = "read"
    /\ IF column_number < LastColumn
       THEN LET cleared == [state EXCEPT ![column_number] = unselect(@)]
                target == column_number + 1 IN
            /\ column_number' = target
            /\ state' = [cleared EXCEPT ![target] = next(Some(row), row)]
       ELSE UNCHANGED <<column_number, state>>
    /\ pc' = "draw"
    /\ UNCHANGED <<row, items, indexed>>
    /\ Handled("Right")

\* KeyCode::Right
KeyRight ==
    /\ pc = "read"
    /\ IF column_number < LastColumn
       THEN LET cleared == [state EXCEPT ![column_number] = unselect(@)]
                target == column_number + 1 IN
            /\ column_number' = target
            /\ state' = [cleared EXCEPT ![target] = next(@, row)]
       ELSE UNCHANGED <<column_number, state>>
    /\ pc' = "draw"
    /\ UNCHANGED <<row, items, indexed>>
    /\ Handled("Right")

\* Variant of KeyCode::Left: the column that is entered gets no selection.
KeyLeft_lose ==
    /\ pc = "read"
    /\ IF column_number > 0
       THEN /\ column_number' = column_number - 1
            /\ state' = [state EXCEPT ![column_number] = unselect(@)]
       ELSE UNCHANGED <<column_number, state>>
    /\ pc' = "draw"
    /\ UNCHANGED <<row, items, indexed>>
    /\ Handled("Left")

\* Variant of KeyCode::Left: the new column always starts at row 0.
KeyLeft_top ==
    /\ pc = "read"
    /\ IF column_number > 0
       THEN LET cleared == [state EXCEPT ![column_number] = unselect(@)]
                target == column_number - 1 IN
            /\ column_number' = target
            /\ state' = [cleared EXCEPT ![target] = next(@, 0)]
       ELSE UNCHANGED <<column_number, state>>
    /\ pc' = "draw"
    /\ UNCHANGED <<row, items, indexed>>
    /\ Handled("Left")

\* KeyCode::Left
KeyLeft ==
    /\ pc = "read"
    /\ IF column_number > 0
       THEN LET cleared == [state EXCEPT ![column_number] = unselect(@)]
                target == column_number - 1 IN
            /\ column_number' = target
            /\ state' = [cleared EXCEPT ![target] = next(@, row)]
       ELSE UNCHANGED <<column_number, state>>
    /\ pc' = "draw"
    /\ UNCHANGED <<row, items, indexed>>
    /\ Handled("Left")

\* KeyCode::Char('w') => toggle_white(&mut columns).  An index outside the
\* item array panics; the process dies without returning from main.
KeyW ==
    /\ pc = "read"
    /\ indexed' = toggle_indexes(state)
    /\ IF \A cell \in toggle_indexes(state) : cell[2] \in Rows
       THEN /\ items' = toggle_white(items, state)
            /\ pc' = "draw"
       ELSE /\ items' = items
            /\ pc' = "panic"
    /\ UNCHANGED <<column_number, row, state>>
    /\ Handled("w")

\* Variant of KeyCode::Char('q'): the arm does not leave the loop.
KeyQ_continue ==
    /\ pc = "read"
    /\ pc' = "draw"
    /\ UNCHANGED <<grid, indexed>>
    /\ Handled("q")

\* KeyCode::Char('q') => break
KeyQ ==
    /\ pc = "read"
    /\ pc' = "disable_raw_mode"
    /\ UNCHANGED <<grid, indexed>>
    /\ Handled("q")

\* Variant of `_ => {}`: a key code with no arm leaves the loop.
KeyOther_quit ==
    /\ pc = "read"
    /\ pc' = "disable_raw_mode"
    /\ UNCHANGED <<grid, indexed>>
    /\ \E k \in Keys \ {"Down", "Up", "Right", "Left", "w", "q"} :
        Handled(k)

\* _ => {} : a key code with no arm
KeyOther ==
    /\ pc = "read"
    /\ pc' = "draw"
    /\ UNCHANGED <<grid, indexed>>
    /\ \E k \in Keys \ {"Down", "Up", "Right", "Left", "w", "q"} :
        Handled(k)

\* `if let Event::Key(key)` does not match: mouse, resize, ...
NonKey ==
    /\ pc = "read"
    /\ pc' = "draw"
    /\ UNCHANGED <<grid, indexed>>
    /\ \E e \in Events \ Keys : Handled(e)

\* ------------------------------------------------------------------- exit
\* disable_raw_mode()?
DisableRawMode ==
    /\ pc = "disable_raw_mode"
    /\ \/ /\ raw_mode' = FALSE
          /\ pc' = "leave_alternate_screen"
          /\ result' = result
       \/ /\ raw_mode' = raw_mode
          /\ Fail
    /\ UNCHANGED <<alternate_screen, grid, key, indexed, trace, moved, seen_row, drawn, frame>>

\* execute!(terminal.backend_mut(), LeaveAlternateScreen, DisableMouseCapture)?
LeaveAlternateScreen ==
    /\ pc = "leave_alternate_screen"
    /\ \/ /\ alternate_screen' = FALSE
          /\ pc' = "show_cursor"
          /\ result' = result
       \/ /\ alternate_screen' \in {alternate_screen, FALSE}
          /\ Fail
    /\ UNCHANGED <<raw_mode, grid, key, indexed, trace, moved, seen_row, drawn, frame>>

\* terminal.show_cursor()?; Ok(()) and main's return Ok(())
ShowCursor ==
    /\ pc = "show_cursor"
    /\ \/ /\ pc' = "done"
          /\ result' = Ok
       \/ Fail
    /\ UNCHANGED <<raw_mode, alternate_screen, grid, key, indexed, trace, moved, seen_row, drawn, frame>>

Next ==
    \/ EnableRawMode
    \/ EnterAlternateScreen
    \/ TerminalNew
    \/ Draw
    \/ ReadFail
    \/ KeyDown
    \/ KeyUp
    \/ KeyRight
    \/ KeyLeft
    \/ KeyW
    \/ KeyQ
    \/ KeyOther
    \/ NonKey
    \/ DisableRawMode
    \/ LeaveAlternateScreen
    \/ ShowCursor

Spec == Init /\ [][Next]_vars

\* exit() is straight-line code: once the loop is left, each of its calls
\* returns and the next one runs.  Nothing is assumed about the blocking
\* event::read().
Teardown == DisableRawMode \/ LeaveAlternateScreen \/ ShowCursor
FairSpec == Spec /\ WF_vars(Teardown)

\* ---------------------------------------------------------------- helpers
\* The step is one handled input event that keeps the loop running.
EventStep == pc = "read" /\ pc' \in {"draw", "disable_raw_mode", "panic"}

Selected == {c \in Cols : state[c] # None}
NumSelected == Cardinality(Selected)

TypeOK ==
    /\ pc \in {"enable_raw_mode", "enter_alternate_screen", "terminal_new",
               "draw", "read", "disable_raw_mode", "leave_alternate_screen",
               "show_cursor", "done", "panic"}
    /\ raw_mode \in BOOLEAN /\ alternate_screen \in BOOLEAN
    /\ result = Running \/ result = Ok \/ IsErr(result)
    /\ column_number \in Nat /\ row \in Nat
    /\ \A c \in Cols : state[c] = None \/ state[c] \in {Some(i) : i \in 0..NoneSelected}
    /\ items \in [Cols -> [Rows -> {Red, White}]]
    /\ key \in Events \cup {"none"}
    /\ moved \in BOOLEAN
    /\ \A c \in Cols : seen_row[c] = None \/ seen_row[c] \in {Some(i) : i \in Rows}
    /\ drawn \in Nat
Min(a, b) == IF a < b THEN a ELSE b
Max(a, b) == IF a > b THEN a ELSE b

\* The selection of the active column.
Active == state[column_number]

\* Every event recorded in `trace` is k, and `trace` is the whole history.
AllPresses(k) == trace # Truncated /\ \A i \in 1..Len(trace) : trace[i] = k

\* The cells whose colour is not the initial one.
Touched == {cell \in Cols \X Rows : items[cell[1]][cell[2]] # Red}

\* ----------------------------------------------------------------- claims

\* C1 (as stated): in every state reached after at least one input event has
\* been processed, exactly one of the three columns has a selected row.
C1_OneSelectedAfterAnyInput == trace # <<>> => NumSelected = 1

\* C1 (amended): exactly one column has a selected row in every state reached
\* after at least one Down, Up or Right has been processed; no column has one
\* in the initial state and for as long as only Left, 'w', unmatched keys and
\* non-key events have been processed.
C1_OneSelectedAfterFirstMove == NumSelected = (IF moved THEN 1 ELSE 0)

\* Inputs were processed without any selection appearing, then a move made one.
C1_Witness ==
    /\ trace # Truncated /\ Len(trace) = 3
    /\ trace[1] = "w" /\ trace[2] = "Left" /\ trace[3] = "Up"
    /\ NumSelected = 1

\* C2: in every reachable state every column other than the active column
\* (column_number) has no selected row.
C2_OnlyActiveSelected == \A c \in Cols \ {column_number} : state[c] = None

\* The focus has moved from column 0 to column 1 and column 1 holds the selection.
C2_Witness ==
    /\ key = "Right" /\ column_number = 1 /\ pc = "draw"
    /\ state[1] # None /\ state[0] = None /\ state[2] = None

\* C3: Down on a selected row r gives min(r+1, 2), Down with no selection
\* selects the remembered row; the selected row never decreases on a Down and
\* never exceeds 2; after n >= 1 Downs from the initial state it is min(n-1, 2).
C3_DownClamped ==
    /\ [][EventStep /\ key' = "Down" =>
            /\ column_number' = column_number
            /\ state'[column_number] =
                 IF Active = None THEN Some(row)
                 ELSE Some(Min(Unwrap(Active) + 1, 2))
            /\ Unwrap(state'[column_number]) <= 2
            /\ Active # None =>
                 Unwrap(state'[column_number]) >= Unwrap(Active)]_vars
    /\ [](AllPresses("Down") /\ trace # <<>> =>
            Active = Some(Min(Len(trace) - 1, 2)))

\* Downs only, one more than it takes to reach the last row.
C3_Witness ==
    /\ AllPresses("Down") /\ Len(trace) = 4
    /\ Active = Some(2) /\ row = 2

\* C4: Up on a selected row r gives max(r-1, 0), Up with no selection selects
\* the remembered row; the selected row never increases on an Up and never
\* goes below 0.
C4_UpClamped ==
    [][EventStep /\ key' = "Up" =>
         /\ column_number' = column_number
         /\ state'[column_number] =
              IF Active = None THEN Some(row)
              ELSE Some(Max(Unwrap(Active) - 1, 0))
         /\ Unwrap(state'[column_number]) >= 0
         /\ Active # None =>
              Unwrap(state'[column_number]) <= Unwrap(Active)]_vars

\* Up pressed on row 0 after coming up from row 1.
C4_Witness ==
    /\ trace = <<"Down", "Down", "Up", "Up">>
    /\ Active = Some(0) /\ row = 0

\* C5: while no Down or Up is processed, whenever a column is the active one
\* again its selected row is the one it had when it was active before.
C5_RowKeptAcrossColumns ==
    seen_row[column_number] # None => Active = seen_row[column_number]

\* Column 0 was left on row 1 and is active again two presses later.
C5_Witness ==
    /\ trace = <<"Down", "Down", "Right", "Left">>
    /\ column_number = 0 /\ seen_row[0] = Some(1) /\ Active = Some(1)

\* C6: Right with the active column 2 and Left with the active column 0 leave
\* the active column, the remembered row, every selection and every cell as
\* they were; three Rights from the initial state end in column 2.
C6_BoundaryNoOp ==
    /\ [][EventStep /\ \/ key' = "Right" /\ column_number = 2
                       \/ key' = "Left" /\ column_number = 0
            => UNCHANGED <<column_number, row, state, items>>]_vars
    /\ [](trace = <<"Right", "Right", "Right">> => column_number = 2)

\* The third Right has been processed and the focus is still on column 2.
C6_Witness ==
    /\ trace = <<"Right", "Right", "Right">>
    /\ column_number = 2 /\ Active = Some(0) /\ pc = "draw"

\* C7: 'w' processed while the active column has row r selected leaves the
\* cell (active column, r) White and the other eight cells as they were;
\* after start, Down, 'w' the selected cell is the only one that is not Red.
C7_ToggleMakesWhite ==
    /\ [][EventStep /\ key' = "w" /\ Active # None =>
            \A c \in Cols : \A r \in Rows :
                items'[c][r] = IF c = column_number /\ r = Unwrap(Active)
                               THEN White ELSE items[c][r]]_vars
    /\ [](trace = <<"Down", "w">> => Touched = {<<0, 0>>})

\* C8: 'w' processed while no column has a selected row changes no cell and
\* indexes no item array.
C8_ToggleWithoutSelection ==
    [][EventStep /\ key' = "w" /\ NumSelected = 0 =>
         /\ items' = items
         /\ indexed' = {}
         /\ pc' = "draw"]_vars

\* 'w' was the first input.
C8_Witness ==
    /\ trace = <<"w">> /\ NumSelected = 0 /\ pc = "draw"
    /\ indexed = {} /\ Touched = {}

\* C9: Right below column 2 (Left above column 0) clears the old active
\* column, moves the active column by exactly one, selects exactly the
\* remembered row there and keeps the remembered row; start, Down, Down,
\* Right, Up ends in column 1 on row 0.
C9_ColumnSwitch ==
    /\ [][EventStep /\ key' = "Right" /\ column_number < 2 =>
            /\ column_number' = column_number + 1
            /\ state'[column_number] = None
            /\ state'[column_number'] = Some(row)
            /\ row' = row]_vars
    /\ [][EventStep /\ key' = "Left" /\ column_number > 0 =>
            /\ column_number' = column_number - 1
            /\ state'[column_number] = None
            /\ state'[column_number'] = Some(row)
            /\ row' = row]_vars
    /\ [](trace = <<"Down", "Down", "Right", "Up">> =>
            column_number = 1 /\ Active = Some(0))

\* The scenario has run to its end.
C9_Witness ==
    /\ trace = <<"Down", "Down", "Right", "Up">>
    /\ column_number = 1 /\ Active = Some(0) /\ state[0] = None /\ row = 0

\* C10: when main has ended on a user quit, a failed draw, a failed read or a
\* failed setup step after enable_raw_mode, raw mode is disabled and the
\* alternate screen has been left.
C10_TerminalRestored ==
    pc = "done" /\ result \in {Ok, Err("enter_alternate_screen"),
                              Err("terminal_new"), Err("draw"), Err("read")}
        => ~raw_mode /\ ~alternate_screen

\* C11: processing 'q' leaves the loop with the grid untouched; afterwards no
\* further input is handled, the grid is never written, only the calls of
\* exit() run, main returns, and it returns Ok exactly when all of them
\* succeeded, with the terminal restored.
C11_QuitEndsLoop ==
    /\ [][EventStep /\ key' = "q" =>
            pc' = "disable_raw_mode" /\ UNCHANGED grid]_vars
    /\ [][key = "q" =>
            /\ key' = "q" /\ trace' = trace /\ UNCHANGED grid
            /\ pc' \in {"disable_raw_mode", "leave_alternate_screen",
                        "show_cursor", "done"}]_vars
    /\ [](key = "q" /\ pc = "done" =>
            /\ result \in {Ok, Err("disable_raw_mode"),
                           Err("leave_alternate_screen"), Err("show_cursor")}
            /\ result = Ok => ~raw_mode /\ ~alternate_screen)
    /\ (key = "q") ~> (pc = "done")

\* 'q' after some navigation, teardown succeeded.
C11_Witness ==
    /\ key = "q" /\ pc = "done" /\ result = Ok
    /\ trace = <<"Down", "Right", "q">> /\ column_number = 1
    /\ ~raw_mode /\ ~alternate_screen

C13_IndicesInRange ==
    /\ column_number \in 0..2
    /\ row \in 0..2 /\ row # NoneSelected
    /\ \A c \in Cols : state[c] # None => Unwrap(state[c]) \in 0..2
    /\ indexed \subseteq (0..2) \X (0..2)
    /\ pc # "panic"

\* The last cell of the grid is selected and has been indexed by toggle_white.
C13_Witness ==
    /\ column_number = 2 /\ row = 2 /\ Active = Some(2)
    /\ key = "w" /\ indexed = {<<2, 2>>} /\ pc = "draw"

\* C14: whenever the active column has a selected row, the remembered row is
\* that row; Down and Up store the resulting selection in it, Left and Right
\* leave it alone and select it in the column they enter.
C14_RememberedRowIsSelected ==
    /\ [](Active # None => row = Unwrap(Active))
    /\ [][EventStep /\ key' \in {"Down", "Up"} =>
            row' = Unwrap(state'[column_number'])]_vars
    /\ [][EventStep /\ key' \in {"Left", "Right"} =>
            /\ row' = row
            /\ column_number' # column_number =>
                 state'[column_number'] = Some(row)]_vars

\* The remembered row was lowered by an Up and carried into the next column.
C14_Witness ==
    /\ trace = <<"Down", "Down", "Up", "Right">>
    /\ column_number = 1 /\ row = 0 /\ Active = Some(0)

\* C15: an event is read only after exactly one frame has been drawn since
\* the previous read (since the start, for the first read), and that frame
\* shows the grid as the previous event left it; after an event is handled
\* the next step of a running loop is the draw of the resulting grid.
C15_OneFramePerRead ==
    /\ [](pc = "read" => drawn = 1 /\ frame = <<state, items>>)
    /\ [][EventStep => drawn = 1 /\ frame = <<state, items>>]_vars
    /\ [][pc = "draw" =>
            \/ pc' = "read" /\ drawn' = 1 /\ frame' = <<state, items>>
                 /\ UNCHANGED grid
            \/ pc' = "done" /\ IsErr(result')]_vars

\* A Down changed the grid and the frame drawn after it shows the new row.
C15_Witness ==
    /\ trace = <<"Down", "Down">> /\ pc = "read" /\ drawn = 1
    /\ frame = <<state, items>> /\ frame[1][0] = Some(1)

\* C16: processing 'w' changes neither the active column, nor the remembered
\* row, nor any selection, indexes no cell other than the selected cell of
\* the active column, and changes the colour of no other cell.
C16_ToggleFrame ==
    [][EventStep /\ key' = "w" =>
         /\ UNCHANGED <<column_number, row, state>>
         /\ indexed' \subseteq {<<column_number, return_selected(Active)>>}
         /\ \A c \in Cols : \A r \in Rows :
              ~(c = column_number /\ Active = Some(r)) =>
                  items'[c][r] = items[c][r]]_vars

\* 'w' was processed on the middle cell and the selection is where it was.
C16_Witness ==
    /\ trace = <<"Down", "Down", "Right", "w">> /\ pc = "draw"
    /\ column_number = 1 /\ row = 1 /\ Active = Some(1)
    /\ indexed = {<<1, 1>>}

\* C17: once some column has a selected row, after every further step exactly
\* one column has a selected row and it is the active column.
C17_FocusNeverLost ==
    [][NumSelected >= 1 => Selected' = {column_number'}]_vars

\* The focus went right and came back and is still on exactly one column.
C17_Witness ==
    /\ trace = <<"Right", "Right", "Left", "Left">>
    /\ Selected = {0} /\ column_number = 0
====
